---- MODULE Spec2Model ----
(***************************************************************************)
(* v8-heapsnapshot: parseSnapshot (src/src/index.ts) as a state machine.   *)
(*                                                                         *)
(* One process calls parseSnapshot on one document after another.  A call  *)
(* runs Sanity.check, parseNodes, the loop of parseAndWireEdges (one       *)
(* record per step) and the SnapshotImpl constructor; it ends with a graph *)
(* returned or with an exception thrown.  The caller then reads the graph  *)
(* (global, modules, findNodeById) before it moves on.  The only thing     *)
(* that outlives a call is what was written to the console.                *)
(*                                                                         *)
(* JavaScript values are records [k, s, n, b, a, keys]:                    *)
(*   k = "undef" | "str" | "num" | "bool" | "arr" | "obj"  (and "opt" for  *)
(*   the Optional wrapper of the template).  Flat arrays hold integers; a  *)
(*   read outside an array gives undefined, as in JavaScript.              *)
(***************************************************************************)
EXTENDS Integers, Sequences, FiniteSets, TLC

\* ------------------------------------------------------------------ bounds
MaxNodes == 2
MaxEdges == 2
MaxStderr == 2
MaxReads == 2

\* ------------------------------------------------------- JavaScript values
Undefined == [k |-> "undef", s |-> "", n |-> 0, b |-> FALSE, a |-> <<>>, keys |-> <<>>]
Str(x) == [k |-> "str", s |-> x, n |-> 0, b |-> FALSE, a |-> <<>>, keys |-> <<>>]
Num(x) == [k |-> "num", s |-> "", n |-> x, b |-> FALSE, a |-> <<>>, keys |-> <<>>]
Bool(x) == [k |-> "bool", s |-> "", n |-> 0, b |-> x, a |-> <<>>, keys |-> <<>>]
Arr(x) == [k |-> "arr", s |-> "", n |-> 0, b |-> FALSE, a |-> x, keys |-> <<>>]
Obj(ks, x) == [k |-> "obj", s |-> "", n |-> 0, b |-> FALSE, a |-> x, keys |-> ks]
StrArr(xs) == Arr([i \in 1..Len(xs) |-> Str(xs[i])])

\* obj[prop]: undefined when the property is absent
Get(obj, prop) ==
    IF obj.k = "obj" /\ \E i \in 1..Len(obj.keys) : obj.keys[i] = prop
    THEN obj.a[CHOOSE i \in 1..Len(obj.keys) : obj.keys[i] = prop]
    ELSE Undefined

\* arr[idx] for a JavaScript array and a JavaScript index value
Index(arr, idx) ==
    IF arr.k = "arr" /\ idx.k = "num" /\ idx.n >= 0 /\ idx.n < Len(arr.a)
    THEN arr.a[idx.n + 1]
    ELSE Undefined

\* arr[i] for a flat number array (a sequence of integers) and a position
Read(arr, i) ==
    IF i >= 0 /\ i < Len(arr) THEN Num(arr[i + 1]) ELSE Undefined

\* x.length throws a TypeError when x is undefined
HasLength(x) == x.k = "arr"
Length(x) == Len(x.a)

\* ------------------------------------------------------- Sanity: template
opt(x) == [k |-> "opt", s |-> "", n |-> 0, b |-> FALSE, a |-> <<x>>, keys |-> <<>>]

nodeTypeTypesProto ==
    StrArr(<<"hidden", "array", "string", "object", "code", "closure", "regexp",
             "number", "native", "synthetic", "concatenated string",
             "sliced string", "symbol", "bigint">>)

edgeTypeTypesProto ==
    StrArr(<<"context", "element", "property", "internal", "hidden", "shortcut", "weak">>)

MetaKeys ==
    <<"node_fields", "node_types", "edge_fields", "edge_types",
      "trace_function_info_fields", "trace_node_fields", "sample_fields",
      "location_fields">>

metaDataProto ==
    Obj(MetaKeys,
        << Arr(<<Str("type"), Str("name"), Str("id"), Str("self_size"),
                 Str("edge_count"), Str("trace_node_id"), opt(Str("detachedness"))>>),
           Arr(<<nodeTypeTypesProto, Str("string"), Str("number"), Str("number"),
                 Str("number"), Str("number"), opt(Str("number"))>>),
           StrArr(<<"type", "name_or_index", "to_node">>),
           Arr(<<edgeTypeTypesProto, Str("string_or_number"), Str("node")>>),
           StrArr(<<"function_id", "name", "script_name", "script_id", "line", "column">>),
           StrArr(<<"id", "function_info_index", "count", "size", "children">>),
           StrArr(<<"timestamp_us", "last_assigned_id">>),
           StrArr(<<"object_index", "script_id", "line", "column">>) >>)

\* checkMetaData(path, data, proto): TRUE when data conforms to proto
RECURSIVE checkMetaData(_, _)
checkMetaData(data, proto) ==
    IF proto.k = "opt"
    THEN IF data.k # "undef" THEN checkMetaData(data, proto.a[1]) ELSE TRUE
    ELSE IF proto.k = "str"
    THEN data = proto
    ELSE IF proto.k = "arr"
    THEN IF data.k # "arr"
         THEN FALSE
         ELSE /\ ~(Len(data.a) > Len(proto.a))
              /\ \A idx \in 1..Len(proto.a) :
                    checkMetaData(Index(data, Num(idx - 1)), proto.a[idx])
    ELSE IF data.k # "obj"
         THEN FALSE
         ELSE \A p \in 1..Len(proto.keys) :
                    checkMetaData(Get(data, proto.keys[p]), proto.a[p])

\* ------------------------------------------------------------- documents
\* A document (RawSnapshotData as it arrives):
\*   argKind      what parseSnapshot is handed: "object", "string" (JSON text),
\*                "badjson" (text that is no JSON), "illegal" (anything else)
\*   rootType     typeof of the document root
\*   nonArrays    the bulk fields that are not arrays
\*   nonIntegers  the declared counts that are not integers
\*   layout       what snapshot.meta declares: the lengths of node_fields,
\*                node_types, edge_fields and edge_types and how it departs from
\*                the template; MetaOf(doc) is snapshot.meta itself
\*   nodes, edges the flat number arrays; strings the string table
\*   tfiLength    trace_function_infos.length
Strings == <<"global / ", "Module", "x">>

NodeFieldNames ==
    <<"type", "name", "id", "self_size", "edge_count", "trace_node_id",
      "detachedness", "extra_field">>
NodeTypeRest == <<"string", "number", "number", "number", "number", "number", "number">>
EdgeFieldNames == <<"type", "name_or_index", "to_node", "extra_field">>
EdgeTypeRest == <<"string_or_number", "node", "number">>

DriftKinds ==
    {"none", "scalar", "new_edge_type", "no_trace_node_fields",
     "no_trace_function_info_fields", "no_node_fields", "no_meta"}

MakeMeta(nfc, ntc, efc, etc, drift) ==
    IF drift = "no_meta" THEN Undefined ELSE
    Obj(MetaKeys,
        << IF drift = "no_node_fields" THEN Undefined
           ELSE StrArr(SubSeq(NodeFieldNames, 1, nfc)),
           Arr(<<nodeTypeTypesProto>> \o StrArr(SubSeq(NodeTypeRest, 1, ntc - 1)).a),
           StrArr(SubSeq(EdgeFieldNames, 1, efc)),
           Arr(<< IF drift = "new_edge_type"
                  THEN Arr(edgeTypeTypesProto.a \o <<Str("new_kind")>>)
                  ELSE edgeTypeTypesProto >>
               \o StrArr(SubSeq(EdgeTypeRest, 1, etc - 1)).a),
           IF drift = "no_trace_function_info_fields" THEN Undefined
           ELSE metaDataProto.a[5],
           IF drift = "no_trace_node_fields" THEN Undefined ELSE metaDataProto.a[6],
           IF drift = "scalar" THEN StrArr(<<"timestamp_ms", "last_assigned_id">>)
           ELSE metaDataProto.a[7],
           metaDataProto.a[8] >>)

\* A node record before it is laid out: the seven values of the widest known
\* layout.  Names index Strings; type 14 is outside the node-type enumeration.
NodeShape(t, nm, id, ec, det) ==
    [type |-> t, name |-> nm, id |-> id, self_size |-> 8, edge_count |-> ec,
     trace_node_id |-> 0, det |-> det]
NodeShapes ==
    { NodeShape(3, 0, 1, 1, 0),
      NodeShape(3, 1, 2, 0, 1),
      NodeShape(2, 2, 3, 2, 2),
      NodeShape(14, 2, 1, 0, 0),
      NodeShape(13, 0, 5, 1, 1) }
LeafShapes == { r \in NodeShapes : r.edge_count = 0 }

\* An edge record before it is laid out: the destination is node number `to`
\* (0-based) plus `off` elements, so off # 0 is a misaligned offset.  Type 7 is
\* outside the edge-type enumeration; name 3 is Len(Strings), name -1 is negative.
EdgeShape(t, nm, to, off) == [type |-> t, name |-> nm, to |-> to, off |-> off]
EdgeShapes ==
    { EdgeShape(1, 1, 0, 0),
      EdgeShape(2, 2, 1, 0),
      EdgeShape(4, 7, 1, 0),
      EdgeShape(2, 3, 0, 0),
      EdgeShape(3, -1, 0, 0),
      EdgeShape(6, 0, 0, 1),
      EdgeShape(7, 0, 2, 0) }

SeqsUpTo(S, n) == UNION { [1..m -> S] : m \in 0..n }

RECURSIVE Flatten(_)
Flatten(ss) == IF ss = <<>> THEN <<>> ELSE Head(ss) \o Flatten(Tail(ss))

NodeRecord(r, nfc) ==
    SubSeq(<<r.type, r.name, r.id, r.self_size, r.edge_count, r.trace_node_id, r.det, 0>>,
           1, nfc)
EdgeRecord(e, nfc, efc) ==
    SubSeq(<<e.type, e.name, e.to * nfc + e.off, 0>>, 1, efc)

FlatNodes(rs, nfc) == Flatten([i \in 1..Len(rs) |-> NodeRecord(rs[i], nfc)])
FlatEdges(es, nfc, efc) == Flatten([i \in 1..Len(es) |-> EdgeRecord(es[i], nfc, efc)])

Layout(nfc, ntc, efc, etc, drift) ==
    [nfc |-> nfc, ntc |-> ntc, efc |-> efc, etc |-> etc, drift |-> drift]
MetaOf(doc) ==
    MakeMeta(doc.layout.nfc, doc.layout.ntc, doc.layout.efc, doc.layout.etc,
             doc.layout.drift)

BaseDoc(layout, rs, es) ==
    [argKind |-> "object", rootType |-> "object", nonArrays |-> {}, nonIntegers |-> {},
     node_count |-> Len(rs), edge_count |-> Len(es), trace_function_count |-> 0,
     layout |-> layout, nodes |-> FlatNodes(rs, layout.nfc),
     edges |-> FlatEdges(es, layout.nfc, layout.efc),
     strings |-> Strings, tfiLength |-> 0]

\* documents whose node records vary, wired by well-formed edge records
PlainEdges == { EdgeShape(1, 1, 0, 0), EdgeShape(2, 2, 1, 0) }
NodeDocs ==
    { BaseDoc(Layout(nfc, nfc, 3, 3, "none"), rs, es) :
        nfc \in {6, 7}, rs \in SeqsUpTo(NodeShapes, MaxNodes),
        es \in SeqsUpTo(PlainEdges, MaxEdges) }

\* documents whose edge records vary, over two fixed node sequences
Hubs ==
    { <<NodeShape(2, 2, 3, 2, 2), NodeShape(3, 0, 1, 1, 0)>>,
      <<NodeShape(3, 0, 1, 1, 0), NodeShape(3, 1, 2, 0, 1)>> }
EdgeDocs ==
    { BaseDoc(Layout(nfc, nfc, 3, 3, "none"), rs, es) :
        nfc \in {6, 7}, rs \in Hubs, es \in SeqsUpTo(EdgeShapes, MaxEdges) }

\* documents whose declared layout varies, with one node and no edge
LayoutDocs ==
    { BaseDoc(Layout(l[1], l[2], l[3], l[4], d), <<r>>, <<>>) :
        l \in { x \in (5..8) \X (5..8) \X (2..4) \X (2..4) :
                  x[2] \in {x[1], 6} /\ x[4] \in {x[3], 3} },
        d \in DriftKinds, r \in LeafShapes }

\* documents with one structural defect, otherwise conforming
ArrayFields ==
    {"nodes", "edges", "strings", "trace_function_infos", "trace_tree", "samples"}
CountFields == {"node_count", "edge_count", "trace_function_count"}
Conforming == BaseDoc(Layout(7, 7, 3, 3, "none"),
                      <<NodeShape(3, 0, 1, 1, 0), NodeShape(3, 1, 2, 0, 1)>>,
                      <<EdgeShape(2, 2, 1, 0)>>)
DefectDocs ==
    { [Conforming EXCEPT !.argKind = k] : k \in {"string", "badjson", "illegal"} }
    \cup { [Conforming EXCEPT !.argKind = "string", !.rootType = "number"] }
    \cup { [Conforming EXCEPT !.nonArrays = {f}] : f \in ArrayFields }
    \cup { [Conforming EXCEPT !.nonIntegers = {f}] : f \in CountFields }
    \cup { [Conforming EXCEPT !.node_count = n] : n \in {1, 3} }
    \cup { [Conforming EXCEPT !.edge_count = n] : n \in {0, 2} }
    \cup { [Conforming EXCEPT !.nodes = SubSeq(@, 1, Len(@) - 1)],
           [Conforming EXCEPT !.edges = @ \o <<0>>],
           [Conforming EXCEPT !.tfiLength = 6],
           [Conforming EXCEPT !.trace_function_count = 1] }

Docs == NodeDocs \cup EdgeDocs \cup LayoutDocs \cup DefectDocs

\* ------------------------------------------------------------------ state
VARIABLES
    pc,         \* where the current call is: "idle", "check", "nodes", "edges", "done"
    data,       \* the document of the current call (<<>> before the first one)
    nodes,      \* parseNodes' result, wired in place by parseAndWireEdges
    result,     \* parseAndWireEdges' result array
    fromIdx,    \* forEach position in nodes (1-based)
    edgeCount,  \* the inner loop's counter
    edgeIndex,  \* next position to read in data.edges (0-based)
    promise,    \* what parseSnapshot's promise settled to
    stderr,     \* "Heapsnapshot format changed!" lines on the console so far
    reads,      \* how often the caller has read global or modules of the graph
    globalScans,  \* runs of nodes.find in the global getter of this graph
    modulesScans, \* runs of nodes.filter in the modules getter of this graph
    got         \* outcome of the caller's latest read of the graph

views == <<reads, globalScans, modulesScans, got>>
vars == <<pc, data, nodes, result, fromIdx, edgeCount, edgeIndex, promise, stderr,
          reads, globalScans, modulesScans, got>>

Pending == [state |-> "pending", value |-> <<>>, reason |-> ""]
Rejected(err) == [state |-> "rejected", value |-> <<>>, reason |-> err]
Fulfilled(v) == [state |-> "fulfilled", value |-> <<v>>, reason |-> ""]

\* ----------------------------------------------------------------- Sanity
TypeOf(x) ==
    CASE x.k = "undef" -> "undefined"
      [] x.k = "str" -> "string"
      [] x.k = "num" -> "number"
      [] x.k = "bool" -> "boolean"
      [] OTHER -> "object"

\* the assert helpers: TRUE when the assertion passes, FALSE when it throws
assertX(cond) == cond
assertObject(type) == assertX(type = "object")
assertArray(doc, field) == assertX(field \notin doc.nonArrays)
assertInteger(doc, field) == assertX(field \notin doc.nonIntegers)
\* assertLength that only rejects a length above the expected one
assertLength_AtMost(len, expectedLen) == ~(len > expectedLen)

assertLength(len, expectedLen) == ~(len # expectedLen)

parseInfoFromSnapshot(doc) ==
    [nodeFieldCount |-> Length(Get(MetaOf(doc), "node_fields")),
     edgeFieldCount |-> Length(Get(MetaOf(doc), "edge_fields"))]

hasDetachedness(doc) == Length(Get(MetaOf(doc), "node_fields")) >= 7

\* Sanity.check up to the template comparison: the error thrown, or "none"
checkAsserts(doc) ==
    LET meta == MetaOf(doc)
        F(p) == Get(meta, p)
    IN  IF ~assertObject(doc.rootType) THEN "Error"
        ELSE IF \E f \in ArrayFields : ~assertArray(doc, f) THEN "Error"
        ELSE IF \E f \in CountFields : ~assertInteger(doc, f) THEN "Error"
        ELSE IF ~assertObject(TypeOf(meta)) THEN "Error"
        ELSE IF ~HasLength(F("node_fields")) \/ ~HasLength(F("node_types")) THEN "TypeError"
        ELSE IF ~assertX(Length(F("node_fields")) = Length(F("node_types"))) THEN "Error"
        ELSE IF ~HasLength(F("edge_fields")) \/ ~HasLength(F("edge_types")) THEN "TypeError"
        ELSE IF ~assertX(Length(F("edge_fields")) = Length(F("edge_types"))) THEN "Error"
        ELSE IF ~assertX(parseInfoFromSnapshot(doc).nodeFieldCount >= 6) THEN "Error"
        ELSE IF ~assertLength(parseInfoFromSnapshot(doc).edgeFieldCount, 3) THEN "Error"
        ELSE "none"

\* Sanity.check without its element-count assertions
checkCounts_Skipped(doc) == "none"

\* Sanity.check after the template comparison: the element counts
checkCounts(doc) ==
    LET meta == MetaOf(doc)
        F(p) == Get(meta, p)
    IN  IF ~assertLength(Len(doc.nodes), doc.node_count * Length(F("node_fields")))
        THEN "Error"
        ELSE IF ~assertLength(Len(doc.edges), doc.edge_count * Length(F("edge_fields")))
        THEN "Error"
        ELSE IF ~HasLength(F("trace_function_info_fields")) THEN "TypeError"
        ELSE IF ~assertLength(doc.tfiLength,
                    doc.trace_function_count * Length(F("trace_function_info_fields")))
        THEN "Error"
        ELSE "none"

\* Sanity.check: the error it throws ("none" when it returns) and whether it
\* wrote "Heapsnapshot format changed!" before that
check(doc) ==
    IF checkAsserts(doc) # "none"
    THEN [error |-> checkAsserts(doc), warned |-> FALSE]
    ELSE [error |-> checkCounts(doc),
          warned |-> ~checkMetaData(MetaOf(doc), metaDataProto)]

\* ------------------------------------------------------------- parseNodes
NodeImpl(type, name, id, self_size, edge_count, trace_node_id, detached) ==
    [type |-> type, name |-> name, id |-> id, self_size |-> self_size,
     edge_count |-> edge_count, trace_node_id |-> trace_node_id,
     detached |-> detached, out_edges |-> <<>>, in_edges |-> <<>>]

\* strings[i] for the string table and a JavaScript index value
StringAt(strings, i) ==
    IF i.k = "num" /\ i.n >= 0 /\ i.n < Len(strings) THEN Str(strings[i.n + 1])
    ELSE Undefined

\* access with <= for <
access_Inclusive(arr, idx, baseIdx, length) ==
    IF (idx - baseIdx) <= length THEN Bool(Read(arr, idx) = Num(1)) ELSE Undefined

access(arr, idx, baseIdx, length) ==
    IF (idx - baseIdx) < length THEN Bool(Read(arr, idx) = Num(1)) ELSE Undefined

parseNodes(doc, parseInfo) ==
    LET types == Index(Get(MetaOf(doc), "node_types"), Num(0))
        nodeFieldCount == parseInfo.nodeFieldCount
    IN  [ i \in 1..doc.node_count |->
            LET baseIndex == (i - 1) * nodeFieldCount
            IN  NodeImpl(Index(types, Read(doc.nodes, baseIndex)),
                         StringAt(doc.strings, Read(doc.nodes, baseIndex + 1)),
                         Read(doc.nodes, baseIndex + 2),
                         Read(doc.nodes, baseIndex + 3),
                         Read(doc.nodes, baseIndex + 4),
                         Read(doc.nodes, baseIndex + 5),
                         access(doc.nodes, baseIndex + 6, baseIndex, nodeFieldCount)) ]

\* ------------------------------------------------------ parseAndWireEdges
EdgeImpl(type, name, from, to) ==
    [type |-> type, name |-> name, from |-> from, to |-> to]

IsType(type, name) == type.k = "str" /\ type.s = name

\* name_or_index: the name, or threw = TRUE for "Invalid string index!"
name_or_index(strings, type, i) ==
    IF IsType(type, "element") \/ IsType(type, "hidden")
    THEN [threw |-> FALSE, value |-> i]
    ELSE IF i.k = "num" /\ i.n >= Len(strings)
    THEN [threw |-> TRUE, value |-> Undefined]
    ELSE [threw |-> FALSE, value |-> StringAt(strings, i)]

\* the quotient rounded down before it is used as an index
NodeAt_Truncating(ns, offset, nodeFieldCount) ==
    IF /\ offset.k = "num" /\ offset.n >= 0
       /\ offset.n \div nodeFieldCount < Len(ns)
    THEN (offset.n \div nodeFieldCount) + 1
    ELSE 0

\* nodes[offset / nodeFieldCount] as a position in nodes (1-based), 0 for undefined
NodeAt(ns, offset, nodeFieldCount) ==
    IF /\ offset.k = "num" /\ offset.n >= 0
       /\ offset.n % nodeFieldCount = 0
       /\ offset.n \div nodeFieldCount < Len(ns)
    THEN (offset.n \div nodeFieldCount) + 1
    ELSE 0

\* the loop condition with <= for <
LoopRuns_OffByOne(count, node) ==
    node.edge_count.k = "num" /\ count <= node.edge_count.n

\* the loop condition edgeCount < from_node.edge_count
LoopRuns(count, node) == node.edge_count.k = "num" /\ count < node.edge_count.n

\* from_node.out_edges.push(edge): edges are named by their position in result
PushOut(ns, from, e) ==
    [ns EXCEPT ![from].out_edges = Append(@, e)]
\* in_edges.unshift(edge) for push
PushIn_Front(ns, to, e) ==
    [ns EXCEPT ![to].in_edges = <<e>> \o @]

PushIn(ns, to, e) ==
    [ns EXCEPT ![to].in_edges = Append(@, e)]

\* ----------------------------------------------------------- SnapshotImpl
\* a Map that keeps the first node set for an id
SnapshotImpl_FirstWins(ns, es, hasDet) ==
    [nodes |-> ns, edges |-> es, hasDetachedness |-> hasDet,
     _global |-> 0, _modules |-> <<>>,
     idToNodeMapping |->
        [ id \in { ns[i].id : i \in 1..Len(ns) } |->
            CHOOSE i \in 1..Len(ns) :
                /\ ns[i].id = id
                /\ \A j \in 1..Len(ns) : ns[j].id = id => i <= j ]]

\* Nodes are named by their position in nodes (1-based).  _global is 0 while
\* undefined; _modules is <<>> while undefined and <<list>> once assigned.
\* idToNodeMapping: for each id the last node that carries it
SnapshotImpl(ns, es, hasDet) ==
    [nodes |-> ns, edges |-> es, hasDetachedness |-> hasDet,
     _global |-> 0, _modules |-> <<>>,
     idToNodeMapping |->
        [ id \in { ns[i].id : i \in 1..Len(ns) } |->
            CHOOSE i \in 1..Len(ns) :
                /\ ns[i].id = id
                /\ \A j \in 1..Len(ns) : ns[j].id = id => j <= i ]]

\* idToNodeMapping.get(id): <<position>>, or <<>> for undefined
findNodeById(snapshot, id) ==
    IF id \in DOMAIN snapshot.idToNodeMapping
    THEN <<snapshot.idToNodeMapping[id]>>
    ELSE <<>>

\* the last match instead of the first
find_Last(ns, name) ==
    LET hits == { i \in 1..Len(ns) : ns[i].name = Str(name) }
    IN  IF hits = {} THEN 0 ELSE CHOOSE i \in hits : \A j \in hits : j <= i

\* nodes.find(node => node.name === name): the first match, 0 for undefined
find(ns, name) ==
    LET hits == { i \in 1..Len(ns) : ns[i].name = Str(name) }
    IN  IF hits = {} THEN 0 ELSE CHOOSE i \in hits : \A j \in hits : i <= j

\* nodes.filter(node => node.name === name && node.type === type), in order
RECURSIVE filter(_, _, _, _)
filter(ns, name, type, i) ==
    IF i > Len(ns) THEN <<>>
    ELSE IF ns[i].name = Str(name) /\ ns[i].type = Str(type)
         THEN <<i>> \o filter(ns, name, type, i + 1)
         ELSE filter(ns, name, type, i + 1)

\* an empty list taken for a missing one
modulesMissing_EmptyToo(snapshot) ==
    snapshot._modules = <<>> \/ snapshot._modules = << <<>> >>

\* !this._modules: only undefined is falsy, an empty array is not
modulesMissing(snapshot) == snapshot._modules = <<>>

\* !this._global: a node object is never falsy
globalMissing(snapshot) == snapshot._global = 0

\* what a read of the graph gave the caller
NoRead == [view |-> "none", arg |-> Undefined, threw |-> "", value |-> <<>>]
ReadOf(view, arg, threw, value) ==
    [view |-> view, arg |-> arg, threw |-> threw, value |-> value]

\* the ids the caller looks up: one that nodes may share, one no node carries
QueryIds == {Num(1), Num(7)}

\* ---------------------------------------------------------------- actions
Init ==
    /\ pc = "idle"
    /\ data = <<>>
    /\ nodes = <<>>
    /\ result = <<>>
    /\ fromIdx = 1
    /\ edgeCount = 0
    /\ edgeIndex = 0
    /\ promise = Pending
    /\ stderr = 0
    /\ reads = 0
    /\ globalScans = 0
    /\ modulesScans = 0
    /\ got = NoRead

\* parseSnapshot(arg1) up to Sanity.check: the input is normalised
Call ==
    /\ pc = "idle"
    /\ stderr < MaxStderr
    /\ \E doc \in Docs :
          /\ data' = <<doc>>
          /\ IF doc.argKind = "illegal"
             THEN pc' = "done" /\ promise' = Rejected("Illigal snapshot data!")
             ELSE IF doc.argKind = "badjson"
             THEN pc' = "done" /\ promise' = Rejected("SyntaxError")
             ELSE pc' = "check" /\ promise' = Pending
    /\ UNCHANGED <<nodes, result, fromIdx, edgeCount, edgeIndex, stderr>>
    /\ UNCHANGED views

\* Sanity.check(data)
SanityCheck ==
    /\ pc = "check"
    /\ LET r == check(data[1])
       IN  /\ stderr' = IF r.warned THEN stderr + 1 ELSE stderr
           /\ IF r.error # "none"
              THEN pc' = "done" /\ promise' = Rejected(r.error)
              ELSE pc' = "nodes" /\ UNCHANGED promise
    /\ UNCHANGED <<data, nodes, result, fromIdx, edgeCount, edgeIndex>>
    /\ UNCHANGED views

\* parseNodes(data, parseInfo)
ParseNodes ==
    /\ pc = "nodes"
    /\ nodes' = parseNodes(data[1], parseInfoFromSnapshot(data[1]))
    /\ pc' = "edges"
    /\ UNCHANGED <<data, result, fromIdx, edgeCount, edgeIndex, promise, stderr>>
    /\ UNCHANGED views

\* one iteration of the inner loop of parseAndWireEdges
WireEdge ==
    /\ pc = "edges"
    /\ fromIdx <= Len(nodes)
    /\ LoopRuns(edgeCount, nodes[fromIdx])
    /\ LET doc == data[1]
           types == Index(Get(MetaOf(doc), "edge_types"), Num(0))
           type == Index(types, Read(doc.edges, edgeIndex))
           name == name_or_index(doc.strings, type, Read(doc.edges, edgeIndex + 1))
           to_node == NodeAt(nodes, Read(doc.edges, edgeIndex + 2),
                             parseInfoFromSnapshot(doc).nodeFieldCount)
           edge == EdgeImpl(type, name.value, fromIdx, to_node)
           e == Len(result) + 1
       IN  IF name.threw
           THEN /\ pc' = "done"
                /\ promise' = Rejected("Invalid string index!")
                /\ edgeIndex' = edgeIndex + 2
                /\ UNCHANGED <<nodes, result, edgeCount>>
           ELSE /\ edgeIndex' = edgeIndex + 3
                /\ result' = Append(result, edge)
                /\ IF to_node = 0
                   THEN /\ nodes' = PushOut(nodes, fromIdx, e)
                        /\ pc' = "done"
                        /\ promise' = Rejected("TypeError")
                        /\ UNCHANGED edgeCount
                   ELSE /\ nodes' = PushIn(PushOut(nodes, fromIdx, e), to_node, e)
                        /\ edgeCount' = edgeCount + 1
                        /\ UNCHANGED <<pc, promise>>
    /\ UNCHANGED <<data, fromIdx, stderr>>
    /\ UNCHANGED views

\* the inner loop ends: forEach moves to the next node
NextNode ==
    /\ pc = "edges"
    /\ fromIdx <= Len(nodes)
    /\ ~LoopRuns(edgeCount, nodes[fromIdx])
    /\ fromIdx' = fromIdx + 1
    /\ edgeCount' = 0
    /\ UNCHANGED <<pc, data, nodes, result, edgeIndex, promise, stderr>>
    /\ UNCHANGED views

\* forEach is over: return new SnapshotImpl(nodes, edges, hasDetachedness(data))
Return ==
    /\ pc = "edges"
    /\ fromIdx > Len(nodes)
    /\ promise' = Fulfilled(SnapshotImpl(nodes, result, hasDetachedness(data[1])))
    /\ pc' = "done"
    /\ UNCHANGED <<data, nodes, result, fromIdx, edgeCount, edgeIndex, stderr>>
    /\ UNCHANGED views

\* the caller reads snapshot.global
GetGlobal ==
    /\ pc = "done"
    /\ promise.state = "fulfilled"
    /\ reads < MaxReads
    /\ reads' = reads + 1
    /\ LET snapshot == promise.value[1]
       IN  IF globalMissing(snapshot)
           THEN LET found == find(snapshot.nodes, "global / ")
                IN  /\ globalScans' = globalScans + 1
                    /\ promise' = [promise EXCEPT !.value[1]._global = found]
                    /\ got' = IF found = 0
                              THEN ReadOf("global", Undefined,
                                          "Could not find global object!", <<>>)
                              ELSE ReadOf("global", Undefined, "", <<found>>)
           ELSE /\ got' = ReadOf("global", Undefined, "", <<snapshot._global>>)
                /\ UNCHANGED <<promise, globalScans>>
    /\ UNCHANGED <<pc, data, nodes, result, fromIdx, edgeCount, edgeIndex, stderr,
                   modulesScans>>

\* the caller reads snapshot.modules
GetModules ==
    /\ pc = "done"
    /\ promise.state = "fulfilled"
    /\ reads < MaxReads
    /\ reads' = reads + 1
    /\ LET snapshot == promise.value[1]
       IN  IF modulesMissing(snapshot)
           THEN LET found == filter(snapshot.nodes, "Module", "object", 1)
                IN  /\ modulesScans' = modulesScans + 1
                    /\ promise' = [promise EXCEPT !.value[1]._modules = <<found>>]
                    /\ got' = ReadOf("modules", Undefined, "", found)
           ELSE /\ got' = ReadOf("modules", Undefined, "", snapshot._modules[1])
                /\ UNCHANGED <<promise, modulesScans>>
    /\ UNCHANGED <<pc, data, nodes, result, fromIdx, edgeCount, edgeIndex, stderr,
                   globalScans>>

\* the caller calls snapshot.findNodeById(id)
FindNodeById ==
    /\ pc = "done"
    /\ promise.state = "fulfilled"
    /\ \E id \in QueryIds :
          got' = ReadOf("findNodeById", id, "", findNodeById(promise.value[1], id))
    /\ UNCHANGED <<pc, data, nodes, result, fromIdx, edgeCount, edgeIndex, promise,
                   stderr, reads, globalScans, modulesScans>>

\* the caller's await takes the settled promise; the call's locals are gone
Await ==
    /\ pc = "done"
    /\ pc' = "idle"
    /\ data' = <<>>
    /\ nodes' = <<>>
    /\ result' = <<>>
    /\ fromIdx' = 1
    /\ edgeCount' = 0
    /\ edgeIndex' = 0
    /\ promise' = Pending
    /\ reads' = 0
    /\ globalScans' = 0
    /\ modulesScans' = 0
    /\ got' = NoRead
    /\ UNCHANGED stderr

Next ==
    \/ Call
    \/ SanityCheck
    \/ ParseNodes
    \/ WireEdge
    \/ NextNode
    \/ Return
    \/ GetGlobal
    \/ GetModules
    \/ FindNodeById
    \/ Await

Spec == Init /\ [][Next]_vars

\* ============================================================== the claims
Returned == pc = "done" /\ promise.state = "fulfilled"
Threw == pc = "done" /\ promise.state = "rejected"
Graph == promise.value[1]
Doc == data[1]

RECURSIVE Sum(_)
Sum(xs) == IF xs = <<>> THEN 0 ELSE Head(xs) + Sum(Tail(xs))

\* what the document itself declares, read from its raw arrays
DeclaredNodeFields(doc) == Len(Get(MetaOf(doc), "node_fields").a)
DeclaredEdgeFields(doc) == Len(Get(MetaOf(doc), "edge_fields").a)
RawNodeField(doc, i, f) == doc.nodes[(i - 1) * DeclaredNodeFields(doc) + f]
RawEdgeField(doc, j, f) == doc.edges[(j - 1) * DeclaredEdgeFields(doc) + f]
DeclaredEdgeCounts(doc) == [i \in 1..doc.node_count |-> RawNodeField(doc, i, 5)]

Occurrences(xs, x) == Cardinality({ i \in 1..Len(xs) : xs[i] = x })
Increasing(xs) == \A i, j \in 1..Len(xs) : i < j => xs[i] < xs[j]

C2_WiredOnceInOrder ==
    Returned =>
        LET g == Graph
        IN  /\ \A e \in 1..Len(g.edges) : \A i \in 1..Len(g.nodes) :
                  /\ Occurrences(g.nodes[i].out_edges, e)
                        = (IF g.edges[e].from = i THEN 1 ELSE 0)
                  /\ Occurrences(g.nodes[i].in_edges, e)
                        = (IF g.edges[e].to = i THEN 1 ELSE 0)
            /\ \A i \in 1..Len(g.nodes) :
                  /\ Increasing(g.nodes[i].out_edges)
                  /\ Increasing(g.nodes[i].in_edges)
                  /\ \A k \in 1..Len(g.nodes[i].out_edges) :
                        g.nodes[i].out_edges[k] \in 1..Len(g.edges)
                  /\ \A k \in 1..Len(g.nodes[i].in_edges) :
                        g.nodes[i].in_edges[k] \in 1..Len(g.edges)

C2_Witness ==
    /\ Returned
    /\ \E i \in 1..Len(Graph.nodes) : Len(Graph.nodes[i].in_edges) = 2
    /\ \E i \in 1..Len(Graph.nodes) : Len(Graph.nodes[i].out_edges) = 2
    /\ Len(Graph.nodes) = 2

\* C3: a document whose declared edge counts do not add up to the records of
\* its edge array (more asked for than held, or records left over) never gets a
\* graph: parseSnapshot throws.
C3_LockstepOrFatal ==
    Returned => Sum(DeclaredEdgeCounts(Doc)) * 3 = Len(Doc.edges)

\* C4: over all calls of the process "Heapsnapshot format changed!" is written
\* at most once.
C4_WarnOnce == stderr <= 1

\* C5: a document that fails a hard structural assertion never gets past
\* Sanity.check: no node and no edge is built for it and its call ends rejected;
\* and a call that throws hands no graph to the caller, a call that returns one
\* has run the wiring loop to its end.
ArrLen(x) == IF x.k = "arr" THEN Len(x.a) ELSE -1
HardFailure(doc) ==
    LET nf == ArrLen(Get(MetaOf(doc), "node_fields"))
        nt == ArrLen(Get(MetaOf(doc), "node_types"))
        ef == ArrLen(Get(MetaOf(doc), "edge_fields"))
        et == ArrLen(Get(MetaOf(doc), "edge_types"))
        tf == ArrLen(Get(MetaOf(doc), "trace_function_info_fields"))
    IN  \/ doc.rootType # "object"
        \/ doc.nonArrays # {}
        \/ doc.nonIntegers # {}
        \/ nf >= 0 /\ nt >= 0 /\ nf # nt
        \/ ef >= 0 /\ et >= 0 /\ ef # et
        \/ nf >= 0 /\ Len(doc.nodes) # doc.node_count * nf
        \/ ef >= 0 /\ Len(doc.edges) # doc.edge_count * ef
        \/ tf >= 0 /\ doc.tfiLength # doc.trace_function_count * tf

Parsed(doc) == doc.argKind \in {"object", "string"}

C5_AbortBeforeDecode ==
    /\ (data # <<>> /\ Parsed(Doc) /\ HardFailure(Doc)) =>
          /\ pc \in {"check", "done"}
          /\ nodes = <<>>
          /\ result = <<>>
          /\ pc = "done" => promise.state = "rejected"
    /\ pc = "done" => promise.state # "pending"
    /\ promise.state = "rejected" => promise.value = <<>>
    /\ Returned => fromIdx > Len(nodes) /\ Graph.nodes = nodes /\ Graph.edges = result

C5_Witness ==
    /\ Threw
    /\ Parsed(Doc)
    /\ Doc.rootType = "object" /\ Doc.nonArrays = {} /\ Doc.nonIntegers = {}
    /\ Len(Doc.edges) # Doc.edge_count * DeclaredEdgeFields(Doc)
    /\ nodes = <<>>

\* C6: Sanity.check of a document whose edge_fields has a length other than 3,
\* or whose node_fields has fewer than 6 entries, throws, and throws before it
\* writes the drift warning: the call ends rejected with nothing decoded.
BadLayout(doc) ==
    \/ ArrLen(Get(MetaOf(doc), "edge_fields")) >= 0 /\ ArrLen(Get(MetaOf(doc), "edge_fields")) # 3
    \/ ArrLen(Get(MetaOf(doc), "node_fields")) >= 0 /\ ArrLen(Get(MetaOf(doc), "node_fields")) < 6

C6_BadLayoutIsFatal ==
    [][ (pc = "check" /\ BadLayout(Doc)) =>
            /\ pc' = "done"
            /\ promise'.state = "rejected"
            /\ stderr' = stderr
            /\ nodes' = <<>> /\ result' = <<>> ]_vars

C6_Witness ==
    /\ Threw
    /\ DeclaredEdgeFields(Doc) = 2
    /\ ArrLen(Get(MetaOf(Doc), "edge_types")) = 2
    /\ DeclaredNodeFields(Doc) = 6
    /\ ArrLen(Get(MetaOf(Doc), "node_types")) = 6

\* C7: a returned graph has hasDetachedness exactly when the document lists at
\* least 7 node fields; under a 6-field layout every node's detached is
\* undefined, under a wider one it is the boolean "7th value equals 1".
C7_Detachedness ==
    Returned =>
        LET g == Graph
            nfc == DeclaredNodeFields(Doc)
        IN  /\ g.hasDetachedness = (nfc >= 7)
            /\ \A i \in 1..Len(g.nodes) :
                  g.nodes[i].detached =
                      IF nfc >= 7 THEN Bool(RawNodeField(Doc, i, 7) = 1) ELSE Undefined

C7_Witness ==
    /\ Returned
    /\ DeclaredNodeFields(Doc) = 7
    /\ Len(Graph.nodes) = 2
    /\ Graph.nodes[1].detached = Bool(TRUE)
    /\ Graph.nodes[2].detached = Bool(FALSE)
    /\ RawNodeField(Doc, 2, 7) = 2

C7_WitnessOldLayout ==
    /\ Returned
    /\ DeclaredNodeFields(Doc) = 6
    /\ Len(Graph.nodes) = 2

\* C8: in every returned graph an 'element' or 'hidden' edge is named by the
\* number in its record's second field, and every other edge by the string of
\* the string table at that index.
Literal(type) == type = Str("element") \/ type = Str("hidden")

C8_NameByKind ==
    Returned =>
        \A e \in 1..Len(Graph.edges) :
            LET raw == RawEdgeField(Doc, e, 2)
                edge == Graph.edges[e]
            IN  IF Literal(edge.type)
                THEN edge.name = Num(raw)
                ELSE /\ raw \in 0..(Len(Doc.strings) - 1)
                     /\ edge.name = Str(Doc.strings[raw + 1])

\* the half of C8 that the code keeps: literal names for 'element' and 'hidden'
C8_LiteralNames ==
    Returned =>
        \A e \in 1..Len(Graph.edges) :
            Literal(Graph.edges[e].type) =>
                Graph.edges[e].name = Num(RawEdgeField(Doc, e, 2))

\* C9: no returned graph holds an edge, other than an 'element' or 'hidden'
\* one, whose name is not a string of the string table.
C9_NamesResolve ==
    Returned =>
        \A e \in 1..Len(Graph.edges) :
            ~Literal(Graph.edges[e].type) =>
                /\ Graph.edges[e].name.k = "str"
                /\ \E i \in 1..Len(Doc.strings) : Graph.edges[e].name.s = Doc.strings[i]

\* C10: no returned graph holds a node whose type is not a name of the
\* node-type enumeration.
C10_NodeTypesResolve ==
    Returned =>
        \A i \in 1..Len(Graph.nodes) :
            \E t \in 1..Len(nodeTypeTypesProto.a) :
                Graph.nodes[i].type = nodeTypeTypesProto.a[t]

\* positions of the nodes of the returned graph that carry a name
Named(name) == { i \in 1..Len(Graph.nodes) : Graph.nodes[i].name = Str(name) }

\* C11: a call never fails because no node is named "global / ": the graph is
\* returned all the same and only a read of its global property raises
\* "Could not find global object!"; when such nodes exist, the read gives the
\* first of them in decode order.
C11_GlobalOnDemand ==
    /\ Threw => promise.reason # "Could not find global object!"
    /\ (Returned /\ got.view = "global") =>
          IF Named("global / ") = {}
          THEN /\ got.threw = "Could not find global object!"
               /\ got.value = <<>>
          ELSE /\ got.threw = ""
               /\ Len(got.value) = 1
               /\ got.value[1] \in Named("global / ")
               /\ \A j \in Named("global / ") : got.value[1] <= j

\* a graph without a global node was returned and the read of global threw
C11_Witness ==
    /\ Returned
    /\ Len(Graph.nodes) > 0
    /\ Named("global / ") = {}
    /\ got.view = "global"
    /\ got.threw = "Could not find global object!"

\* two nodes are named "global / " and the read gave the first
C11_WitnessFirst ==
    /\ Returned
    /\ Cardinality(Named("global / ")) = 2
    /\ got.view = "global"
    /\ got.value = <<1>>

\* C12 as stated: each of the two scans (nodes.find for global, nodes.filter
\* for modules) runs at most once per graph, and a read gives what is stored.
C12_ScanAtMostOnce ==
    Returned =>
        /\ globalScans <= 1
        /\ modulesScans <= 1
        /\ got.view = "modules" => got.value = Graph._modules[1]
        /\ (got.view = "global" /\ got.threw = "") => got.value = <<Graph._global>>

\* C12, amended: the modules scan runs at most once per graph, also when it
\* finds nothing, and the global scan runs at most once as soon as it has found
\* a node; from then on every read returns the stored value unchanged.  While
\* no node is named "global / " nothing is stored: every read of global scans
\* again and throws again.
C12_CachedOnceFound ==
    [][ (Returned /\ pc' = "done") =>
          /\ modulesScans' <= 1
          /\ globalScans' > 1 => (Named("global / ") = {} /\ Graph'._global = 0)
          /\ Graph._modules # <<>> =>
                /\ Graph'._modules = Graph._modules
                /\ modulesScans' = modulesScans
                /\ (reads' # reads /\ got'.view = "modules") =>
                       got'.value = Graph._modules[1]
          /\ Graph._global # 0 =>
                /\ Graph'._global = Graph._global
                /\ globalScans' = globalScans
                /\ (reads' # reads /\ got'.view = "global") =>
                       got' = ReadOf("global", Undefined, "", <<Graph._global>>)
          /\ (Named("global / ") = {} /\ reads' # reads /\ got'.view = "global") =>
                /\ globalScans' = globalScans + 1
                /\ got'.threw = "Could not find global object!" ]_vars

\* modules was read twice on a graph without modules: one scan, the empty list
C12_Witness ==
    /\ Returned
    /\ reads = 2
    /\ globalScans = 0
    /\ modulesScans = 1
    /\ got = ReadOf("modules", Undefined, "", <<>>)
    /\ Graph._modules = << <<>> >>

\* global was read twice on a graph that has the node: one scan
C12_WitnessGlobal ==
    /\ Returned
    /\ reads = 2
    /\ globalScans = 1
    /\ modulesScans = 0
    /\ got.view = "global"
    /\ Graph._global # 0

\* positions of the nodes of the returned graph that carry an id
Carrying(id) == { i \in 1..Len(Graph.nodes) : Graph.nodes[i].id = id }

\* C13 as stated: in every returned graph the node ids are pairwise distinct
\* and findNodeById(n.id) is n for every node n; an id that no node carries
\* gives undefined, nothing is thrown.
C13_IdsUnique ==
    Returned =>
        /\ \A i, j \in 1..Len(Graph.nodes) :
              i # j => Graph.nodes[i].id # Graph.nodes[j].id
        /\ \A i \in 1..Len(Graph.nodes) :
              findNodeById(Graph, Graph.nodes[i].id) = <<i>>
        /\ \A id \in QueryIds : Carrying(id) = {} => findNodeById(Graph, id) = <<>>
        /\ got.view = "findNodeById" => got.threw = ""

\* C13, amended: findNodeById(id) returns the last node in decode order that
\* carries id, hence n itself for every node n whose id no other node carries;
\* an id that no node carries gives undefined, and nothing is thrown.  Ids
\* are as the document has them, the decoder does not make them distinct.
C13_LastWithId ==
    Returned =>
        /\ \A i \in 1..Len(Graph.nodes) :
              LET r == findNodeById(Graph, Graph.nodes[i].id)
              IN  /\ Len(r) = 1
                  /\ r[1] \in Carrying(Graph.nodes[i].id)
                  /\ \A j \in Carrying(Graph.nodes[i].id) : j <= r[1]
                  /\ Carrying(Graph.nodes[i].id) = {i} => r = <<i>>
        /\ \A id \in QueryIds : Carrying(id) = {} => findNodeById(Graph, id) = <<>>
        /\ got.view = "findNodeById" =>
              /\ got.threw = ""
              /\ IF Carrying(got.arg) = {}
                 THEN got.value = <<>>
                 ELSE /\ Len(got.value) = 1
                      /\ got.value[1] \in Carrying(got.arg)
                      /\ \A j \in Carrying(got.arg) : j <= got.value[1]

\* two nodes carry the id that was looked up; the second was returned
C13_Witness ==
    /\ Returned
    /\ got.view = "findNodeById"
    /\ Carrying(got.arg) = {1, 2}
    /\ got.value = <<2>>

\* the id that was looked up is carried by no node
C13_WitnessUnknown ==
    /\ Returned
    /\ Len(Graph.nodes) > 0
    /\ got.view = "findNodeById"
    /\ Carrying(got.arg) = {}
    /\ got.value = <<>>

\* a document that passes every assertion on its layout lists and whose meta
\* object differs from the template
DriftOnly(doc) ==
    /\ Parsed(doc)
    /\ ~HardFailure(doc)
    /\ ~BadLayout(doc)
    /\ MetaOf(doc).k = "obj"
    /\ \A f \in {"node_fields", "node_types", "edge_fields", "edge_types"} :
          ArrLen(Get(MetaOf(doc), f)) >= 0
    /\ ~checkMetaData(MetaOf(doc), metaDataProto)

\* the fields of node i as the document's declared layout gives them
AsDeclared(doc, ns) ==
    /\ Len(ns) = doc.node_count
    /\ \A i \in 1..Len(ns) :
          /\ ns[i].id = Num(RawNodeField(doc, i, 3))
          /\ ns[i].self_size = Num(RawNodeField(doc, i, 4))
          /\ ns[i].edge_count = Num(RawNodeField(doc, i, 5))

\* C14: a meta object that differs from the template only makes the validator
\* write its warning: Sanity.check goes on to the decode without throwing, and
\* the graph returned has the nodes and edges the declared layout yields.
C14_DriftNeverAborts ==
    [][ /\ (pc = "check" /\ DriftOnly(Doc)) =>
              /\ pc' = "nodes"
              /\ promise' = Pending
              /\ stderr' = stderr + 1
        /\ (pc = "edges" /\ pc' = "done" /\ DriftOnly(Doc) /\ promise'.state = "fulfilled") =>
              /\ AsDeclared(Doc, promise'.value[1].nodes)
              /\ Len(promise'.value[1].edges) = Doc.edge_count ]_vars

\* C15: in every returned graph each edge's from and to are nodes of the
\* graph, and to is the node at position (raw to_node offset / node field
\* count); an offset that is not a multiple of the node field count, or that
\* points past the last node, ends the call with an exception, so an edge
\* without a destination is never part of a returned graph.
C15_EndpointsInGraph ==
    /\ Returned =>
          \A e \in 1..Len(Graph.edges) :
              LET raw == RawEdgeField(Doc, e, 3)
                  nfc == DeclaredNodeFields(Doc)
              IN  /\ Graph.edges[e].from \in 1..Len(Graph.nodes)
                  /\ Graph.edges[e].to \in 1..Len(Graph.nodes)
                  /\ raw >= 0
                  /\ raw % nfc = 0
                  /\ Graph.edges[e].to = (raw \div nfc) + 1
    /\ (\E e \in 1..Len(result) : result[e].to = 0) =>
          /\ Threw
          /\ promise.reason = "TypeError"

\* a returned graph with an edge to its second node
C15_Witness ==
    /\ Returned
    /\ Len(Graph.nodes) = 2
    /\ \E e \in 1..Len(Graph.edges) :
          /\ Graph.edges[e].to = 2
          /\ RawEdgeField(Doc, e, 3) = DeclaredNodeFields(Doc)

\* a misaligned offset ended the call
C15_WitnessMisaligned ==
    /\ Threw
    /\ result # <<>>
    /\ result[Len(result)].to = 0
    /\ Len(Doc.edges) >= Len(result) * DeclaredEdgeFields(Doc)
    /\ RawEdgeField(Doc, Len(result), 3) % DeclaredNodeFields(Doc) # 0

\* an offset past the last node ended the call
C15_WitnessPastEnd ==
    /\ Threw
    /\ result # <<>>
    /\ result[Len(result)].to = 0
    /\ Len(Doc.edges) >= Len(result) * DeclaredEdgeFields(Doc)
    /\ RawEdgeField(Doc, Len(result), 3) = Len(nodes) * DeclaredNodeFields(Doc)

====
